---- MODULE Spec2Model ----
(***************************************************************************)
(* generate_podcast_rss.py: fetch a page, extract its MP3 links, infer     *)
(* episode metadata from the filenames, sort, limit and render an RSS      *)
(* document, write it to standard output.                                  *)
(*                                                                         *)
(* A filename is a sequence of tokens joined by "_" and followed by        *)
(* ".mp3": a date-shaped token is ten characters \d{4}-\d{2}-\d{2}, an     *)
(* episode marker is "Ep" followed by digits.  A date-shaped substring of  *)
(* such a filename is exactly one date token, and "Ep<digits>" is exactly  *)
(* one marker token, so the regular expressions of the source act on the   *)
(* token sequence.                                                         *)
(***************************************************************************)
EXTENDS Integers, Sequences, FiniteSets, TLC

VARIABLES pc, exc, calls, page_html, pos, urls, seen, mp3_urls, limit,
          items, idx, ep, rendered, rss_xml, stdout, stderr, exit_code

vars == <<pc, exc, calls, page_html, pos, urls, seen, mp3_urls, limit,
          items, idx, ep, rendered, rss_xml, stdout, stderr, exit_code>>

(* ------------------------------ bounds -------------------------------- *)

\* most MP3 links on a fetched page
MaxHrefs == 3
\* most episodes handed to build_rss
MaxUrls == 3
\* most tokens in the filename of a single-episode feed
MaxTokens == 3
\* largest --limit value tried (the smallest is -1)
MaxLimit == 1

(* ------------------------------- dates -------------------------------- *)

Date(y, m, d) == [year |-> y, month |-> m, day |-> d]

\* Python's None where a date or a datetime is expected
NoDate == Date(0, 0, 0)

IsLeap(y) == (y % 4 = 0 /\ y % 100 # 0) \/ y % 400 = 0

DaysInMonth(y, m) ==
    IF m = 2 THEN (IF IsLeap(y) THEN 29 ELSE 28)
    ELSE IF m \in {4, 6, 9, 11} THEN 30 ELSE 31

\* dt.date.fromisoformat succeeds on a YYYY-MM-DD text; otherwise ValueError
FromIsoFormatOk(d) ==
    /\ d.year \in 1..9999
    /\ d.month \in 1..12
    /\ d.day \in 1..DaysInMonth(d.year, d.month)

\* dt.datetime(y, m, d, 0, 0, 0, tzinfo=utc)
MidnightUTC(d) == [date |-> d, time |-> <<0, 0, 0>>, tz |-> "UTC"]

NoneDatetime == [date |-> NoDate, time |-> <<0, 0, 0>>, tz |-> "None"]

\* dt.datetime(1970, 1, 1, tzinfo=utc)
EpochSentinel == MidnightUTC(Date(1970, 1, 1))

DateLess(a, b) ==
    \/ a.year < b.year
    \/ a.year = b.year /\ a.month < b.month
    \/ a.year = b.year /\ a.month = b.month /\ a.day < b.day

\* comparison of two aware datetimes, both in UTC
DatetimeLess(a, b) ==
    \/ DateLess(a.date, b.date)
    \/ a.date = b.date /\ ( \/ a.time[1] < b.time[1]
                            \/ a.time[1] = b.time[1] /\ a.time[2] < b.time[2]
                            \/ a.time[1] = b.time[1] /\ a.time[2] = b.time[2]
                               /\ a.time[3] < b.time[3] )

\* email.utils.format_datetime: "Fri, 05 Jan 2024 00:00:00 +0000"
FormatDatetime(t) ==
    [day |-> t.date.day, month |-> t.date.month, year |-> t.date.year,
     hms |-> t.time, zone |-> IF t.tz = "UTC" THEN "+0000" ELSE "-0000"]

(* ------------------------------ filenames ----------------------------- *)

DateToken(y, m, d) == [kind |-> "date", date |-> Date(y, m, d), num |-> 0]
EpToken(n) == [kind |-> "ep", date |-> NoDate, num |-> n]

\* 2024-01-05 (the example of the specification), 1969-12-31 (before the
\* epoch), 1970-05-05 (in the epoch's year), 2024-13-45 (date-shaped, no date)
DateTokens ==
    {DateToken(2024, 1, 5), DateToken(1969, 12, 31),
     DateToken(1970, 5, 5), DateToken(2024, 13, 45)}

EpTokens == {EpToken(12)}

Tokens == DateTokens \cup EpTokens

SeqsUpTo(S, n) == UNION {[1..k -> S] : k \in 1..n}

\* filenames of a multi-episode feed: a date, a marker, or both in either order
FeedNames ==
    {<<t>> : t \in Tokens}
      \cup {<<d, e>> : d \in DateTokens, e \in EpTokens}
      \cup {<<e, d>> : d \in DateTokens, e \in EpTokens}

\* filenames of a single-episode feed: any tokens
LongNames == SeqsUpTo(Tokens, MaxTokens)

\* filenames linked from a fetched page: 2024-01-05_Ep12.mp3 and Ep12.mp3
PageNames == {<<DateToken(2024, 1, 5), EpToken(12)>>, <<EpToken(12)>>}

\* an absolute URL <scheme>://voiceofvashon.org/audio/Paradise/<name>.mp3;
\* escaped: the text still holds the character references of the page
Url(s, n, e) == [scheme |-> s, name |-> n, escaped |-> e]

Range(s) == {s[i] : i \in 1..Len(s)}

IsUnique(s) == \A i, j \in 1..Len(s) : s[i] = s[j] => i = j

(* ----------------------- order of URLs as strings --------------------- *)

\* "ftp://" < "http://" < "https://" in code-point order
SchemeRank(s) == CASE s = "ftp" -> 1 [] s = "http" -> 2 [] OTHER -> 3

\* code-point order of two tokens: a digit sorts before "E"; date tokens are
\* zero-padded and of one width, markers here are of one width
TokenLess(a, b) ==
    \/ a.kind = "date" /\ b.kind = "ep"
    \/ a.kind = "date" /\ b.kind = "date" /\ DateLess(a.date, b.date)
    \/ a.kind = "ep" /\ b.kind = "ep" /\ a.num < b.num

\* code-point order of two filenames: the first differing token decides, and
\* a proper prefix sorts first ("." of ".mp3" < "_")
RECURSIVE NameLess(_, _)
NameLess(s, t) ==
    IF t = <<>> THEN FALSE
    ELSE IF s = <<>> THEN TRUE
    ELSE IF Head(s) = Head(t) THEN NameLess(Tail(s), Tail(t))
    ELSE TokenLess(Head(s), Head(t))

\* Python's < on two URL strings
UrlLess(u, v) ==
    \/ SchemeRank(u.scheme) < SchemeRank(v.scheme)
    \/ u.scheme = v.scheme /\ u.escaped /\ ~v.escaped
    \/ u.scheme = v.scheme /\ u.escaped = v.escaped /\ NameLess(u.name, v.name)

(* ------------------------- metadata inference ------------------------- *)

ExtToken == [kind |-> "ext", date |-> NoDate, num |-> 0]

\* urllib.parse.urlparse(url).path.rsplit("/", 1)[-1]: the tokens and ".mp3"
Filename(url) == Append(url.name, ExtToken)

\* filename.rsplit(".", 1)[0]
Stem(filename) == SubSeq(filename, 1, Len(filename) - 1)

Min(S) == CHOOSE x \in S : \A y \in S : x <= y
Max(S) == CHOOSE x \in S : \A y \in S : y <= x

\* a search that returns the rightmost date-shaped substring instead
DateInNameSearchLast(text) ==
    LET hits == {i \in 1..Len(text) : text[i].kind = "date"}
    IN  IF hits = {} THEN 0 ELSE Max(hits)

\* DATE_IN_NAME_RE.search: position of the leftmost date-shaped substring, 0 if none
DateInNameSearch(text) ==
    LET hits == {i \in 1..Len(text) : text[i].kind = "date"}
    IN  IF hits = {} THEN 0 ELSE Min(hits)

\* EP_RE.search: the leftmost date-shaped substring that some Ep<digits>
\* follows, and (non-greedy .*?) the nearest marker after it
EpSearch(text) ==
    LET eps(i) == {j \in (i + 1)..Len(text) : text[j].kind = "ep"}
        hits == {i \in 1..Len(text) : text[i].kind = "date" /\ eps(i) # {}}
    IN  IF hits = {} THEN [found |-> FALSE, date_at |-> 0, ep_at |-> 0]
        ELSE [found |-> TRUE, date_at |-> Min(hits), ep_at |-> Min(eps(Min(hits)))]

\* parse_episode_info: None, (date, ep), or ValueError from fromisoformat
parse_episode_info(mp3_url) ==
    LET name == Stem(Filename(mp3_url))
        m == EpSearch(name)
    IN  IF ~m.found THEN [status |-> "None", date |-> NoDate, ep |-> 0]
        ELSE IF ~FromIsoFormatOk(name[m.date_at].date)
             THEN [status |-> "ValueError", date |-> NoDate, ep |-> 0]
        ELSE [status |-> "info", date |-> name[m.date_at].date,
              ep |-> name[m.ep_at].num]

\* guess_pubdate_from_url: midnight UTC of the first date-shaped substring of
\* the filename, None when there is none or it is no calendar date
guess_pubdate_from_url(mp3_url) ==
    LET filename == Filename(mp3_url)
        m == DateInNameSearch(filename)
    IN  IF m = 0 THEN NoneDatetime
        ELSE IF FromIsoFormatOk(filename[m].date) THEN MidnightUTC(filename[m].date)
        ELSE NoneDatetime

\* human_title_from_url: the stem with "_" turned into single spaces
human_title_from_url(mp3_url) ==
    [sep |-> " ", words |-> Stem(Filename(mp3_url))]

(* ------------------------------ extraction ---------------------------- *)

\* the text captured by MP3_RE: "<name>.mp3", the same after
\* "https://voiceofvashon.org/audio/Paradise/", that with "/" written as the
\* character reference "&#x2F;", or the same after "ftp://..."
RawForms == {"relative", "absolute", "escaped", "ftp"}

Raws == [form : RawForms, name : PageNames]

\* html.unescape: character references become the characters they name
HtmlUnescape(raw) ==
    IF raw.form = "escaped" THEN [raw EXCEPT !.form = "absolute"] ELSE raw

\* absolutize: urllib.parse.urljoin(base, url) with base DEFAULT_PAGE
absolutize(raw) ==
    CASE raw.form = "relative" -> Url("https", raw.name, FALSE)
      [] raw.form = "absolute" -> Url("https", raw.name, FALSE)
      [] raw.form = "ftp" -> Url("ftp", raw.name, FALSE)
      [] OTHER -> Url("https", raw.name, TRUE)

\* abs_url.startswith(("http://", "https://"))
IsHttp(abs_url) == abs_url.scheme \in {"http", "https"}

\* a loop that never records what it has seen
SeenAddForgotten(s, abs_url) == s

\* seen.add(abs_url)
SeenAdd(s, abs_url) == s \cup {abs_url}

(* ------------------------------- sorting ------------------------------ *)

\* the tuple (pub or epoch, url) appended for one URL
ItemOf(url) ==
    LET pub == guess_pubdate_from_url(url)
    IN  [pub |-> IF pub = NoneDatetime THEN EpochSentinel ELSE pub, url |-> url]

\* Python's < on the key tuples (t[0], t[1])
KeyLess(a, b) ==
    \/ DatetimeLess(a.pub, b.pub)
    \/ a.pub = b.pub /\ UrlLess(a.url, b.url)

\* one element put into a list sorted in descending order, after every
\* element that is not smaller (the sort is stable)
RECURSIVE InsertDesc(_, _)
InsertDesc(x, s) ==
    IF s = <<>> THEN <<x>>
    ELSE IF KeyLess(Head(s), x) THEN <<x>> \o s
    ELSE <<Head(s)>> \o InsertDesc(x, Tail(s))

\* list.sort(key=lambda t: (t[0], t[1]), reverse=True)
RECURSIVE SortDesc(_)
SortDesc(s) ==
    IF s = <<>> THEN <<>>
    ELSE InsertDesc(s[Len(s)], SortDesc(SubSeq(s, 1, Len(s) - 1)))

\* a sort on the URL alone: key=lambda t: t[1]
SortItemsByUrlOnly(s) ==
    LET byUrl == SortDesc([i \in 1..Len(s) |-> [pub |-> EpochSentinel, url |-> s[i].url]])
    IN  [i \in 1..Len(s) |-> CHOOSE t \in Range(s) : t.url = byUrl[i].url]

\* items.sort(key=lambda t: (t[0], t[1]), reverse=True)
SortItems(s) == SortDesc(s)

\* items[:limit] for an integer limit
SliceTo(s, n) ==
    IF n >= 0 THEN SubSeq(s, 1, IF n < Len(s) THEN n ELSE Len(s))
    ELSE SubSeq(s, 1, IF Len(s) + n > 0 THEN Len(s) + n ELSE 0)

(* ------------------------------ rendering ----------------------------- *)

\* the local variable ep of build_rss before its first assignment
Unbound == 0 - 1

\* f"Ep. {ep} -- {date.strftime('%b %d, %Y')}"
EpisodeTitle(date, n) ==
    [kind |-> "episode", ep |-> n, date |-> date, words |-> <<>>]

FallbackTitle(url) ==
    [kind |-> "name", ep |-> 0, date |-> NoDate,
     words |-> human_title_from_url(url).words]

\* "...Originally aired {date.strftime('%B %d, %Y')} on Voice of Vashon."
AiredDescription(date) == [kind |-> "aired", date |-> date, audio |-> <<>>]

\* f"Audio: {url}"
AudioDescription(url) == [kind |-> "audio", date |-> NoDate, audio |-> <<url>>]

\* one pass of the item loop for (pub_dt, url) with the current binding of
\* ep: the exception it raises, or the children of the <item> it adds and
\* the binding of ep it leaves
RenderOne(pub_dt, url, cur_ep) ==
    LET info == parse_episode_info(url)
        new_ep == IF info.status = "info" THEN info.ep ELSE cur_ep
        item == [title |-> IF info.status = "info"
                           THEN EpisodeTitle(info.date, info.ep)
                           ELSE FallbackTitle(url),
                 link |-> url,
                 guid |-> url,
                 description |-> IF info.status = "info"
                                 THEN AiredDescription(info.date)
                                 ELSE AudioDescription(url),
                 pubDate |-> IF pub_dt.date.year # 1970
                             THEN <<FormatDatetime(pub_dt)>> ELSE <<>>,
                 enclosure |-> [url |-> url, type |-> "audio/mpeg"],
                 episode |-> <<new_ep>>,
                 episodeType |-> "full"]
    IN  IF info.status = "ValueError"
        THEN [raised |-> "ValueError", ep |-> cur_ep, item |-> item]
        ELSE IF new_ep = Unbound
        THEN [raised |-> "UnboundLocalError", ep |-> cur_ep, item |-> item]
        ELSE [raised |-> "none", ep |-> new_ep, item |-> item]

NoDocument == [declaration |-> FALSE, language |-> "", items |-> <<>>]

\* tostring(rss, encoding="utf-8", xml_declaration=True).decode("utf-8")
tostring(channel_items) ==
    [declaration |-> TRUE, language |-> "en-us", items |-> channel_items]

(* -------------------------------- main -------------------------------- *)

NoLimit == [set |-> FALSE, n |-> 0]

\* --limit: absent, or any integer argparse's type=int accepts
Limits == {NoLimit} \cup {[set |-> TRUE, n |-> k] : k \in (0 - 1)..MaxLimit}

\* the matches MP3_RE.finditer finds in a fetched page, in page order
Pages == {<<>>} \cup SeqsUpTo(Raws, MaxHrefs)

\* a test that is never true: if mp3_urls is None
NoLinksFoundIsNone(found) == FALSE

\* not mp3_urls
NoLinksFound(found) == found = <<>>

\* a write of the document's head without its items
StdoutWriteHead(out, text) == Append(out, [text EXCEPT !.items = <<>>])

\* sys.stdout.write(rss_xml)
StdoutWrite(out, text) == Append(out, text)

Start(position, page, found, lim, log) ==
    /\ pc = position
    /\ exc = "none"
    /\ calls = log
    /\ page_html = page
    /\ pos = 0
    /\ urls = <<>>
    /\ seen = {}
    /\ mp3_urls = found
    /\ limit = lim
    /\ items = <<>>
    /\ idx = 0
    /\ ep = Unbound
    /\ rendered = <<>>
    /\ rss_xml = NoDocument
    /\ stdout = <<>>
    /\ stderr = <<>>
    /\ exit_code = 0 - 1

\* main is entered with parsed arguments
Init == \E lim \in Limits : Start("fetch", <<>>, <<>>, lim, <<>>)

\* page_html = fetch(args.page) returns
Fetch ==
    /\ pc = "fetch"
    /\ \E page \in Pages : page_html' = page
    /\ pc' = "extract"
    /\ calls' = calls \o <<"fetch", "extract_mp3_urls">>
    /\ UNCHANGED <<exc, pos, urls, seen, mp3_urls, limit, items, idx, ep,
                   rendered, rss_xml, stdout, stderr, exit_code>>

\* fetch raises: unreachable host, timeout, bad status
FetchFail ==
    /\ pc = "fetch"
    /\ exc' = "URLError"
    /\ pc' = "raised"
    /\ calls' = Append(calls, "fetch")
    /\ UNCHANGED <<page_html, pos, urls, seen, mp3_urls, limit, items, idx, ep,
                   rendered, rss_xml, stdout, stderr, exit_code>>

\* one pass of the loop over MP3_RE.finditer(page_html)
ExtractMatch ==
    /\ pc = "extract"
    /\ pos < Len(page_html)
    /\ LET raw == HtmlUnescape(page_html[pos + 1])
           abs_url == absolutize(raw)
       IN  IF ~IsHttp(abs_url) THEN UNCHANGED <<urls, seen>>
           ELSE IF abs_url \notin seen
                THEN seen' = SeenAdd(seen, abs_url) /\ urls' = Append(urls, abs_url)
                ELSE UNCHANGED <<urls, seen>>
    /\ pos' = pos + 1
    /\ UNCHANGED <<pc, exc, calls, page_html, mp3_urls, limit, items, idx, ep,
                   rendered, rss_xml, stdout, stderr, exit_code>>

\* return urls
ExtractReturn ==
    /\ pc = "extract"
    /\ pos = Len(page_html)
    /\ mp3_urls' = urls
    /\ pc' = "check"
    /\ UNCHANGED <<exc, calls, page_html, pos, urls, seen, limit, items, idx, ep,
                   rendered, rss_xml, stdout, stderr, exit_code>>

\* if not mp3_urls: print(..., file=sys.stderr); return 2
NoLinks ==
    /\ pc = "check"
    /\ NoLinksFound(mp3_urls)
    /\ stderr' = Append(stderr, "ERROR: No .mp3 links found")
    /\ exit_code' = 2
    /\ pc' = "exit"
    /\ UNCHANGED <<exc, calls, page_html, pos, urls, seen, mp3_urls, limit, items,
                   idx, ep, rendered, rss_xml, stdout>>

\* rss_xml = build_rss(mp3_urls=mp3_urls, ..., limit=args.limit) is called
CallBuild ==
    /\ pc = "check"
    /\ ~NoLinksFound(mp3_urls)
    /\ calls' = Append(calls, "build_rss")
    /\ pc' = "sort"
    /\ UNCHANGED <<exc, page_html, pos, urls, seen, mp3_urls, limit, items, idx,
                   ep, rendered, rss_xml, stdout, stderr, exit_code>>

\* the items list is built and sorted
BuildSort ==
    /\ pc = "sort"
    /\ items' = SortItems([i \in 1..Len(mp3_urls) |-> ItemOf(mp3_urls[i])])
    /\ pc' = "limit"
    /\ UNCHANGED <<exc, calls, page_html, pos, urls, seen, mp3_urls, limit, idx,
                   ep, rendered, rss_xml, stdout, stderr, exit_code>>

\* if limit is not None: items = items[:limit]
BuildLimit ==
    /\ pc = "limit"
    /\ items' = IF limit.set THEN SliceTo(items, limit.n) ELSE items
    /\ pc' = "render"
    /\ UNCHANGED <<exc, calls, page_html, pos, urls, seen, mp3_urls, limit, idx,
                   ep, rendered, rss_xml, stdout, stderr, exit_code>>

\* one pass of the loop over items that adds an <item>
RenderItem ==
    /\ pc = "render"
    /\ idx < Len(items)
    /\ LET r == RenderOne(items[idx + 1].pub, items[idx + 1].url, ep)
       IN  /\ r.raised = "none"
           /\ rendered' = Append(rendered, r.item)
           /\ ep' = r.ep
    /\ idx' = idx + 1
    /\ UNCHANGED <<pc, exc, calls, page_html, pos, urls, seen, mp3_urls, limit,
                   items, rss_xml, stdout, stderr, exit_code>>

\* one pass of the loop over items that raises
RenderRaise ==
    /\ pc = "render"
    /\ idx < Len(items)
    /\ LET r == RenderOne(items[idx + 1].pub, items[idx + 1].url, ep)
       IN  /\ r.raised # "none"
           /\ exc' = r.raised
    /\ pc' = "raised"
    /\ UNCHANGED <<calls, page_html, pos, urls, seen, mp3_urls, limit, items, idx,
                   ep, rendered, rss_xml, stdout, stderr, exit_code>>

\* the loop is over: build_rss serializes the tree and returns the text
Serialize ==
    /\ pc = "render"
    /\ idx = Len(items)
    /\ rss_xml' = tostring(rendered)
    /\ pc' = "write"
    /\ UNCHANGED <<exc, calls, page_html, pos, urls, seen, mp3_urls, limit, items,
                   idx, ep, rendered, stdout, stderr, exit_code>>

\* sys.stdout.write(rss_xml); return 0
Write ==
    /\ pc = "write"
    /\ stdout' = StdoutWrite(stdout, rss_xml)
    /\ exit_code' = 0
    /\ pc' = "exit"
    /\ UNCHANGED <<exc, calls, page_html, pos, urls, seen, mp3_urls, limit, items,
                   idx, ep, rendered, rss_xml, stderr>>

\* an exception leaves main: the interpreter prints the traceback and exits 1
Propagate ==
    /\ pc = "raised"
    /\ stderr' = Append(stderr, "Traceback (most recent call last)")
    /\ exit_code' = 1
    /\ pc' = "exit"
    /\ UNCHANGED <<exc, calls, page_html, pos, urls, seen, mp3_urls, limit, items,
                   idx, ep, rendered, rss_xml, stdout>>

Next ==
    \/ Fetch
    \/ FetchFail
    \/ ExtractMatch
    \/ ExtractReturn
    \/ NoLinks
    \/ CallBuild
    \/ BuildSort
    \/ BuildLimit
    \/ RenderItem
    \/ RenderRaise
    \/ Serialize
    \/ Write
    \/ Propagate

\* the whole program
Spec == Init /\ [][Next]_vars

\* extract_mp3_urls applied to a page
InitExtract == \E page \in Pages : Start("extract", page, <<>>, NoLimit, <<"extract_mp3_urls">>)

NextExtract == ExtractMatch \/ ExtractReturn

SpecExtract == InitExtract /\ [][NextExtract]_vars

UniqueSeqs(S, n) == {s \in SeqsUpTo(S, n) : IsUnique(s)}

FeedUrls == {Url("https", n, FALSE) : n \in FeedNames}

LongUrls == {Url("https", n, FALSE) : n \in LongNames}

NextBuild == BuildSort \/ BuildLimit \/ RenderItem \/ RenderRaise \/ Serialize

\* build_rss applied to a list of unique URLs and a limit
InitBuild ==
    \E found \in UniqueSeqs(FeedUrls, MaxUrls), lim \in Limits :
        Start("sort", <<>>, found, lim, <<"build_rss">>)

SpecBuild == InitBuild /\ [][NextBuild]_vars

\* build_rss applied to one URL with a filename of any tokens
InitEpisode ==
    \E u \in LongUrls, lim \in Limits : Start("sort", <<>>, <<u>>, lim, <<"build_rss">>)

SpecEpisode == InitEpisode /\ [][NextBuild]_vars

(* ------------------------------- claims ------------------------------- *)

Matches(url) == parse_episode_info(url).status = "info"

Undated(url) == guess_pubdate_from_url(url) = NoneDatetime

Sorted(found) == SortItems([i \in 1..Len(found) |-> ItemOf(found[i])])

Smaller(a, b) == IF a < b THEN a ELSE b

\* C1: every rendered item whose URL does not match the structured pattern
\* carries no itunes:episode element, whatever items precede it.
C1_FallbackHasNoEpisode ==
    \A k \in 1..Len(rendered) :
        ~Matches(rendered[k].link) => rendered[k].episode = <<>>

\* C2: build_rss never raises on a list of unique absolute http(s) .mp3 URLs.
C2_BuildNeverRaises == pc # "raised" /\ exc = "none"

\* C3: in the order build_rss renders, every item without a parseable publish
\* date comes after every item that has one.
C3_UndatedAfterDated ==
    pc \in {"limit", "render", "write", "raised"} =>
        \A i, j \in 1..Len(items) :
            (Undated(items[i].url) /\ ~Undated(items[j].url)) => j < i

\* C4: with limit set to N, the document build_rss returns holds exactly the
\* first min(N, number of episodes) items of the sorted order.
C4_LimitKeepsFirstN ==
    (pc = "write" /\ limit.set) =>
        LET n == Smaller(limit.n, Len(mp3_urls))
        IN  /\ Len(rss_xml.items) = n
            /\ \A k \in 1..Len(rss_xml.items) :
                   rss_xml.items[k].link = Sorted(mp3_urls)[k].url

\* C5: a rendered item carries pubDate exactly when its publish date is known,
\* and that pubDate is midnight UTC of the date.
C5_PubDateIffDated ==
    \A k \in 1..Len(rendered) :
        LET pub == guess_pubdate_from_url(rendered[k].link)
        IN  /\ rendered[k].pubDate # <<>> <=> pub # NoneDatetime
            /\ rendered[k].pubDate # <<>> =>
                   rendered[k].pubDate = <<FormatDatetime(MidnightUTC(pub.date))>>

Resolved(k) == absolutize(HtmlUnescape(page_html[k]))

Kept == {k \in 1..pos : IsHttp(Resolved(k))}

FirstAt(u) == Min({k \in Kept : Resolved(k) = u})

\* C6: the URLs extract_mp3_urls collects hold no duplicate, are the resolved
\* http(s) URLs of the page, and stand in the order of their first occurrence.
C6_ExtractUniqueFirstSeen ==
    /\ IsUnique(urls)
    /\ Range(urls) = {Resolved(k) : k \in Kept}
    /\ \A i, j \in 1..Len(urls) : i < j => FirstAt(urls[i]) < FirstAt(urls[j])
    /\ pc = "check" => mp3_urls = urls

\* a page was extracted in which two different link texts resolve to one URL
\* and a later link resolves to another
C6_Witness ==
    /\ pc = "check"
    /\ Len(mp3_urls) = 2
    /\ \E i, j \in 1..Len(page_html) :
           i < j /\ page_html[i] # page_html[j] /\ Resolved(i) = Resolved(j)

\* C7: the rendered order is descending by publish date (the epoch for an
\* undated item), then descending by URL, and each item's place is fixed by
\* the set of input URLs alone.
C7_SortedDescending ==
    /\ pc = "limit" =>
         /\ Len(items) = Len(mp3_urls)
         /\ {items[k].url : k \in 1..Len(items)} = Range(mp3_urls)
         /\ \A k \in 1..Len(items) :
                Cardinality({u \in Range(mp3_urls) :
                                 KeyLess(items[k], ItemOf(u))}) = k - 1
    /\ pc \in {"limit", "render", "write", "raised"} =>
         /\ \A k \in 1..Len(items) : items[k] = ItemOf(items[k].url)
         /\ \A k \in 1..(Len(items) - 1) :
                \/ DatetimeLess(items[k + 1].pub, items[k].pub)
                \/ /\ items[k + 1].pub = items[k].pub
                   /\ UrlLess(items[k + 1].url, items[k].url)
         /\ \A k \in 1..Len(rendered) : rendered[k].link = items[k].url

\* three episodes were sorted, two of one date that arrived in ascending URL
\* order, and the sort changed the order
C7_Witness ==
    /\ pc = "limit"
    /\ Len(items) = 3
    /\ \E i, j \in 1..Len(mp3_urls) :
           /\ i < j
           /\ ItemOf(mp3_urls[i]).pub = ItemOf(mp3_urls[j]).pub
           /\ UrlLess(mp3_urls[i], mp3_urls[j])
    /\ \E k \in 1..Len(items) : items[k].url # mp3_urls[k]

ExtractorReturnedNothing ==
    /\ "extract_mp3_urls" \in Range(calls)
    /\ pc # "extract"
    /\ mp3_urls = <<>>

\* C8: when the extractor returns no link, main returns 2, writes a
\* diagnostic to standard error, never calls build_rss and writes nothing to
\* standard output.
C8_NoLinksExitsTwo ==
    ExtractorReturnedNothing =>
        /\ pc \in {"check", "exit"}
        /\ "build_rss" \notin Range(calls)
        /\ stdout = <<>>
        /\ pc = "exit" => /\ exit_code = 2
                          /\ stderr = <<"ERROR: No .mp3 links found">>

\* main returned after a page whose only links were not http(s)
C8_Witness ==
    /\ ExtractorReturnedNothing
    /\ pc = "exit"
    /\ exit_code = 2
    /\ page_html # <<>>

Complete(doc) ==
    /\ doc.declaration
    /\ Len(doc.items) = Len(items)
    /\ \A k \in 1..Len(items) : doc.items[k].link = items[k].url

\* C9: standard output is empty or holds one complete document; after any
\* failure it is empty; exit code 0 is returned only with the complete
\* document written.
C9_AllOrNothing ==
    /\ stdout = <<>> \/ (stdout = <<rss_xml>> /\ Complete(rss_xml))
    /\ (exc # "none" \/ exit_code \in {1, 2}) => stdout = <<>>
    /\ (pc = "exit" /\ exc = "none" /\ exit_code # 2) =>
           /\ exit_code = 0
           /\ stdout = <<rss_xml>>
           /\ Complete(rss_xml)
    /\ exit_code = 0 => pc = "exit" /\ stdout # <<>>

\* main returned 0 with a document of two items on standard output
C9_Witness ==
    /\ pc = "exit"
    /\ exit_code = 0
    /\ Len(stdout) = 1
    /\ Len(stdout[1].items) = 2

\* C10: for every item whose filename matches the structured pattern, the
\* date of its sort key, and of its pubDate, is the date the pattern
\* captured, the one its title and description show.
C10_StructuredDateIsSortKey ==
    /\ \A k \in 1..Len(items) :
           LET info == parse_episode_info(items[k].url)
           IN  info.status = "info" => items[k].pub = MidnightUTC(info.date)
    /\ \A k \in 1..Len(rendered) :
           LET info == parse_episode_info(rendered[k].link)
           IN  info.status = "info" =>
                   /\ rendered[k].title.date = info.date
                   /\ rendered[k].description.date = info.date
                   /\ rendered[k].pubDate # <<>> =>
                          rendered[k].pubDate = <<FormatDatetime(MidnightUTC(info.date))>>

\* an item was rendered whose filename holds two different dates before its
\* episode marker
C10_Witness ==
    /\ Len(rendered) = 1
    /\ Matches(rendered[1].link)
    /\ rendered[1].pubDate # <<>>
    /\ LET name == rendered[1].link.name
       IN  /\ Len(name) = 3
           /\ name[1].kind = "date" /\ name[2].kind = "date" /\ name[3].kind = "ep"
           /\ name[1] # name[2]

====
